---- MODULE Spec2Model ----
(***************************************************************************)
(* Model of server/models.py: the Author and Post models, their            *)
(* @validates hooks, and the storage the column declarations describe.     *)
(*                                                                         *)
(* A Python str is a sequence of characters (one-character strings, or a   *)
(* name for a code point outside ASCII).  An optional value is a record    *)
(* [none, chars]: None is [none |-> TRUE], a str s is [none |-> FALSE,     *)
(* chars |-> s].                                                           *)
(***************************************************************************)
EXTENDS Integers, Sequences, FiniteSets, TLC

VARIABLES
    authors,        \* in-memory Author objects, one per slot
    posts,          \* in-memory Post objects, one per slot
    authorsDb,      \* committed rows of table "authors"
    postsDb,        \* committed rows of table "posts"
    nextAuthorId,   \* next primary key of "authors"
    nextPostId,     \* next primary key of "posts"
    table,          \* the table this behaviour works on
    last,           \* the most recent operation and how it ended
    rejected,       \* a remembered rejected assignment (history)
    call            \* the most recent direct call of a validator

vars == <<authors, posts, authorsDb, postsDb, nextAuthorId, nextPostId, table,
          last, rejected, call>>

-----------------------------------------------------------------------------
(* Values                                                                  *)

None == [none |-> TRUE, chars |-> <<>>]
Str(s) == [none |-> FALSE, chars |-> s]

\* str * int
Rep(c, n) == [i \in 1..n |-> c]

\* characters for which str.isspace() is true
Whitespace == {" ", "\t", "\n"}

\* characters for which str.isdecimal() is true
DecimalDigits == {"0", "1", "2", "3", "4", "5", "6", "7", "8", "9"}

\* characters for which str.isdigit() is true: the decimal digits and the
\* characters of Numeric_Type=Digit, of which U+00B2 SUPERSCRIPT TWO is one
IsDigitChars == DecimalDigits \cup {"U+00B2"}

\* str.isdigit(): non-empty and every character is a digit character
isdigit(s) == Len(s) > 0 /\ \A i \in 1..Len(s) : s[i] \in IsDigitChars

RECURSIVE lstrip(_)
lstrip(s) ==
    IF s = <<>> THEN s
    ELSE IF Head(s) \in Whitespace THEN lstrip(Tail(s)) ELSE s

RECURSIVE rstrip(_)
rstrip(s) ==
    IF s = <<>> THEN s
    ELSE IF s[Len(s)] \in Whitespace THEN rstrip(SubSeq(s, 1, Len(s) - 1)) ELSE s

\* str.strip()
strip(s) == rstrip(lstrip(s))

\* Python truthiness of an optional str: None and "" are falsy
Truthy(v) == ~v.none /\ Len(v.chars) > 0

\* `phrase in value` for two strs
In(phrase, s) ==
    \E i \in 0..(Len(s) - Len(phrase)) : SubSeq(s, i + 1, i + Len(phrase)) = phrase

-----------------------------------------------------------------------------
(* Results of a validator: the value it returns, or the ValueError raised  *)

Return(v) == [ok |-> TRUE, value |-> v, error |-> ""]
Raise(msg) == [ok |-> FALSE, value |-> None, error |-> msg]

NoId == 0
PhoneLen == 10
MinContentLen == 250
MaxSummaryLen == 250

\* what Query.first() returns when no row matches
NoRow == [id |-> NoId, name |-> None, phone_number |-> None]

\* Author.query.filter(Author.name == value).first(): a matching row, any of
\* them when several match (no ORDER BY), or None
First(db, value) ==
    LET matches == {row \in db : row.name = value}
    IN  IF matches = {} THEN {NoRow} ELSE matches

validate_name_by_presence(self, value, existing) ==
    IF ~Truthy(value) \/ strip(value.chars) = <<>>
    THEN Raise("Author must have a name.")
    ELSE IF existing # NoRow
         THEN Raise("Author name must be unique.")
         ELSE Return(value)

validate_name_no_strip(self, value, existing) ==
    IF ~Truthy(value)
    THEN Raise("Author must have a name.")
    ELSE IF existing # NoRow /\ existing.id # self.id
         THEN Raise("Author name must be unique.")
         ELSE Return(value)

validate_name_skip_new(self, value, existing) ==
    IF ~Truthy(value) \/ strip(value.chars) = <<>>
    THEN Raise("Author must have a name.")
    ELSE IF existing # NoRow /\ self.id # NoId /\ existing.id # self.id
         THEN Raise("Author name must be unique.")
         ELSE Return(value)

\* Author.validate_name, `existing` being what the query returned
validate_name(self, value, existing) ==
    IF ~Truthy(value) \/ strip(value.chars) = <<>>
    THEN Raise("Author must have a name.")
    ELSE IF existing # NoRow /\ existing.id # self.id
         THEN Raise("Author name must be unique.")
         ELSE Return(value)

\* Author.validate_phone_number
validate_phone_number(self, value) ==
    IF value.none THEN Return(value)
    ELSE IF Len(value.chars) # PhoneLen \/ ~isdigit(value.chars)
         THEN Raise("Phone number must be exactly 10 digits.")
         ELSE Return(value)

clickbait_phrases ==
    << <<"W", "o", "n", "'", "t", " ", "B", "e", "l", "i", "e", "v", "e">>,
       <<"S", "e", "c", "r", "e", "t">>,
       <<"T", "o", "p">>,
       <<"G", "u", "e", "s", "s">> >>

\* str.lower() on the letters the model uses
Lower(c) ==
    CASE c = "W" -> "w" [] c = "B" -> "b" [] c = "S" -> "s"
      [] c = "T" -> "t" [] c = "G" -> "g" [] c = "A" -> "a"
      [] c = "N" -> "n" [] c = "D" -> "d" [] OTHER -> c
lower(s) == [i \in 1..Len(s) |-> Lower(s[i])]

validate_title_any_case(self, value) ==
    IF ~Truthy(value) \/ strip(value.chars) = <<>>
    THEN Raise("Post must have a title.")
    ELSE IF ~\E k \in 1..Len(clickbait_phrases) :
                In(lower(clickbait_phrases[k]), lower(value.chars))
         THEN Raise("Title must be sufficiently clickbait-y.")
         ELSE Return(value)

\* Post.validate_title
validate_title(self, value) ==
    IF ~Truthy(value) \/ strip(value.chars) = <<>>
    THEN Raise("Post must have a title.")
    ELSE IF ~\E k \in 1..Len(clickbait_phrases) : In(clickbait_phrases[k], value.chars)
         THEN Raise("Title must be sufficiently clickbait-y.")
         ELSE Return(value)

validate_content_off_by_one(self, value) ==
    IF ~Truthy(value) \/ Len(value.chars) <= MinContentLen
    THEN Raise("Post content must be at least 250 characters long.")
    ELSE Return(value)

\* Post.validate_content
validate_content(self, value) ==
    IF ~Truthy(value) \/ Len(value.chars) < MinContentLen
    THEN Raise("Post content must be at least 250 characters long.")
    ELSE Return(value)

\* Post.validate_summary
validate_summary(self, value) ==
    IF ~value.none /\ Len(value.chars) > MaxSummaryLen
    THEN Raise("Post summary must be at most 250 characters long.")
    ELSE Return(value)

Fiction == <<"F", "i", "c", "t", "i", "o", "n">>
NonFiction == <<"N", "o", "n", "-">> \o Fiction

\* Post.validate_category
validate_category(self, value) ==
    IF value \notin {Str(Fiction), Str(NonFiction)}
    THEN Raise("Post category must be either 'Fiction' or 'Non-Fiction'.")
    ELSE Return(value)

-----------------------------------------------------------------------------
(* Records and candidate inputs                                            *)

AuthorRecs == {"a1", "a2"}
PostRecs == {"p1"}

\* the largest primary key the model hands out
MaxId == 2

Al == <<"A", "l">>
Bo == <<"B", "o">>
Digits10 == <<"5", "5", "5", "0", "1", "2", "3", "4", "5", "6">>
Dashed10 == <<"5", "5", "5", "-", "0", "1", "2", "-", "3", "4">>
Top10Secrets == <<"T", "o", "p", " ", "1", "0", " ", "S", "e", "c", "r", "e", "t", "s">>
ANiceDay == <<"A", " ", "N", "i", "c", "e", " ", "D", "a", "y">>

NameCands == {None, Str(<<" ", "\t">>), Str(Al), Str(Bo)}
PhoneCands == {None, Str(Digits10), Str(Dashed10)}
TitleCands == {None, Str(<<" ">>), Str(Top10Secrets), Str(ANiceDay)}
ContentCands == {None, Str(Rep("a", MinContentLen - 1)), Str(Rep("a", MinContentLen))}
SummaryCands == {None, Str(Rep("s", MaxSummaryLen)), Str(Rep("s", MaxSummaryLen + 1))}
CategoryCands == {None, Str(Fiction), Str(lower(Fiction))}

AuthorFields == {"name", "phone_number"}
PostFields == {"title", "content", "category", "summary"}

\* an Author() / Post() before any attribute is set: every column is None
NewAuthor == [state |-> "transient", id |-> NoId, name |-> None, phone_number |-> None]
NewPost == [state |-> "transient", id |-> NoId, title |-> None, content |-> None,
            category |-> None, summary |-> None]
\* a slot holding no object
NoAuthor == [NewAuthor EXCEPT !.state = "absent"]
NoPost == [NewPost EXCEPT !.state = "absent"]

AuthorRow(obj, id) == [id |-> id, name |-> obj.name, phone_number |-> obj.phone_number]
PostRow(obj, id) == [id |-> id, title |-> obj.title, content |-> obj.content,
                     category |-> obj.category, summary |-> obj.summary]

-----------------------------------------------------------------------------
(* History: what the latest operation was and how it ended, and, in        *)
(* RetrySpec, one remembered rejected assignment with whether an operation  *)
(* other than a retry of it has succeeded since                             *)

Outcome(op, rec, field, value, res) ==
    [op |-> op, rec |-> rec, field |-> field, value |-> value,
     ok |-> res.ok, error |-> res.error]

NoRejection ==
    [rec |-> "", field |-> "", value |-> None, error |-> "", between |-> FALSE]

IsRetry(r, field, value) ==
    rejected.rec = r /\ rejected.field = field /\ rejected.value = value

\* the step that set last' is followed in `rejected`: a rejected assignment may
\* be remembered; once one is, any operation that succeeds, other than a retry
\* of it, sets `between`; it is forgotten when its record is gone
Track ==
    IF last'.op = "assign" /\ IsRetry(last'.rec, last'.field, last'.value)
    THEN UNCHANGED rejected
    ELSE IF last'.op = "assign" /\ ~last'.ok
    THEN \/ rejected' = [rec |-> last'.rec, field |-> last'.field,
                         value |-> last'.value, error |-> last'.error,
                         between |-> FALSE]
         \/ UNCHANGED rejected
    ELSE IF last'.op = "delete" /\ last'.rec = rejected.rec
    THEN rejected' = NoRejection
    ELSE rejected' = IF rejected = NoRejection \/ ~last'.ok THEN rejected
                     ELSE [rejected EXCEPT !.between = TRUE]

-----------------------------------------------------------------------------
(* The @validates hook and the column constraints                          *)

SetAttr_before_validation(obj, field, res) == [obj EXCEPT ![field] = res.value]

\* @validates: the attribute takes the value the validator returns; when the
\* validator raises, the set event is aborted and the attribute keeps its value
SetAttr(obj, field, res) ==
    IF res.ok THEN [obj EXCEPT ![field] = res.value] ELSE obj

\* nullable=False
NotNull(v) == ~v.none

UniqueName_unenforced(db, row) == TRUE

\* unique=True on authors.name
UniqueName(db, row) ==
    \A other \in db : other.id # row.id => other.name # row.name

AuthorConstraints_not_null_only(db, row) == NotNull(row.name)

\* the constraints of table "authors" on a row about to be written
AuthorConstraints(db, row) == NotNull(row.name) /\ UniqueName(db, row)

\* the constraints of table "posts" on a row about to be written
PostConstraints(db, row) == NotNull(row.title)

IntegrityError == Raise("IntegrityError")

\* the validator of an Author attribute
AuthorValidator(self, field, value, existing) ==
    IF field = "name" THEN validate_name(self, value, existing)
    ELSE validate_phone_number(self, value)

\* the validator of a Post attribute
PostValidator(self, field, value) ==
    CASE field = "title" -> validate_title(self, value)
      [] field = "content" -> validate_content(self, value)
      [] field = "summary" -> validate_summary(self, value)
      [] field = "category" -> validate_category(self, value)

AuthorCands(field) == IF field = "name" THEN NameCands ELSE PhoneCands
PostCands(field) ==
    CASE field = "title" -> TitleCands
      [] field = "content" -> ContentCands
      [] field = "summary" -> SummaryCands
      [] field = "category" -> CategoryCands

\* how a constructor called with keyword arguments whose validators end with
\* `results` can end: the attributes are set in the order the caller wrote them,
\* so any of the validators that raise can be the one that ends the call
Constructed(results) ==
    IF \A res \in results : res.ok THEN {Return(None)}
    ELSE {res \in results : ~res.ok}

-----------------------------------------------------------------------------
(* Operations                                                              *)

\* Author and Post share no state (no relationship, no foreign key), so a
\* behaviour works on one of the two tables.
Init ==
    /\ authors = [r \in AuthorRecs |-> NoAuthor]
    /\ posts = [r \in PostRecs |-> NoPost]
    /\ authorsDb = {}
    /\ postsDb = {}
    /\ nextAuthorId = 1
    /\ nextPostId = 1
    /\ table \in {"authors", "posts"}
    /\ last = Outcome("init", "", "", None, Return(None))
    /\ rejected = NoRejection
    /\ call = [fn |-> "", arg |-> None, res |-> Return(None)]

\* Author(**kwargs) for the keyword arguments `supplied`: each is set through its
\* validator; a ValueError leaves no object
ConstructAuthor(r, supplied, name, phone) ==
    /\ table = "authors"
    /\ authors[r].state = "absent"
    /\ \E existing \in First(authorsDb, name) :
        LET rn == IF "name" \in supplied
                  THEN validate_name(NewAuthor, name, existing) ELSE Return(None)
            o1 == SetAttr(NewAuthor, "name", rn)
            rp == IF "phone_number" \in supplied
                  THEN validate_phone_number(o1, phone) ELSE Return(None)
            o2 == SetAttr(o1, "phone_number", rp)
        IN  \E res \in Constructed({rn, rp}) :
                /\ authors' = [authors EXCEPT ![r] = IF res.ok THEN o2 ELSE NoAuthor]
                /\ last' = Outcome("construct", r, "", None, res)
    /\ UNCHANGED <<posts, authorsDb, postsDb, nextAuthorId, nextPostId, table, call>>

\* author.<field> = value on an existing object
AssignAuthor(r, field, value) ==
    /\ table = "authors"
    /\ authors[r].state # "absent"
    /\ \E existing \in First(authorsDb, value) :
        LET res == AuthorValidator(authors[r], field, value, existing)
        IN  /\ authors' = [authors EXCEPT ![r] = SetAttr(authors[r], field, res)]
            /\ last' = Outcome("assign", r, field, value, res)
    /\ UNCHANGED <<posts, authorsDb, postsDb, nextAuthorId, nextPostId, table, call>>

\* db.session.add(author); db.session.commit(): INSERT of a new object, UPDATE
\* of a persistent one, under the constraints of the table
CommitAuthor(r) ==
    /\ table = "authors"
    /\ authors[r].state # "absent"
    /\ authors[r].state = "transient" => nextAuthorId <= MaxId
    /\ LET obj == authors[r]
           id == IF obj.state = "transient" THEN nextAuthorId ELSE obj.id
           row == AuthorRow(obj, id)
           res == IF AuthorConstraints(authorsDb, row) THEN Return(None)
                  ELSE IntegrityError
       IN  /\ IF res.ok
              THEN /\ authorsDb' = {old \in authorsDb : old.id # id} \cup {row}
                   /\ authors' = [authors EXCEPT ![r].state = "persistent", ![r].id = id]
                   /\ nextAuthorId' = IF obj.state = "transient"
                                      THEN nextAuthorId + 1 ELSE nextAuthorId
              ELSE UNCHANGED <<authors, authorsDb, nextAuthorId>>
           /\ last' = Outcome("commit", r, "", None, res)
    /\ UNCHANGED <<posts, postsDb, nextPostId, table, call>>

\* db.session.delete(author); db.session.commit(), or dropping an object that
\* was never committed
DeleteAuthor(r) ==
    /\ table = "authors"
    /\ authors[r].state # "absent"
    /\ authorsDb' = {old \in authorsDb : old.id # authors[r].id}
    /\ authors' = [authors EXCEPT ![r] = NoAuthor]
    /\ last' = Outcome("delete", r, "", None, Return(None))
    /\ UNCHANGED <<posts, postsDb, nextAuthorId, nextPostId, table, call>>

\* Post(**kwargs) for the keyword arguments `supplied`: each is set through its
\* validator; a ValueError leaves no object
ConstructPost(r, supplied, kw) ==
    /\ table = "posts"
    /\ posts[r].state = "absent"
    /\ LET Res(f) == IF f \in supplied THEN PostValidator(NewPost, f, kw[f])
                     ELSE Return(None)
           obj == [NewPost EXCEPT !.title = Res("title").value,
                                  !.content = Res("content").value,
                                  !.category = Res("category").value,
                                  !.summary = Res("summary").value]
       IN  \E res \in Constructed({Res(f) : f \in PostFields}) :
               /\ posts' = [posts EXCEPT ![r] = IF res.ok THEN obj ELSE NoPost]
               /\ last' = Outcome("construct", r, "", None, res)
    /\ UNCHANGED <<authors, authorsDb, postsDb, nextAuthorId, nextPostId, table, call>>

\* post.<field> = value on an existing object
AssignPost(r, field, value) ==
    /\ table = "posts"
    /\ posts[r].state # "absent"
    /\ LET res == PostValidator(posts[r], field, value)
       IN  /\ posts' = [posts EXCEPT ![r] = SetAttr(posts[r], field, res)]
           /\ last' = Outcome("assign", r, field, value, res)
    /\ UNCHANGED <<authors, authorsDb, postsDb, nextAuthorId, nextPostId, table, call>>

\* db.session.add(post); db.session.commit()
CommitPost(r) ==
    /\ table = "posts"
    /\ posts[r].state # "absent"
    /\ posts[r].state = "transient" => nextPostId <= MaxId
    /\ LET obj == posts[r]
           id == IF obj.state = "transient" THEN nextPostId ELSE obj.id
           row == PostRow(obj, id)
           res == IF PostConstraints(postsDb, row) THEN Return(None)
                  ELSE IntegrityError
       IN  /\ IF res.ok
              THEN /\ postsDb' = {old \in postsDb : old.id # id} \cup {row}
                   /\ posts' = [posts EXCEPT ![r].state = "persistent", ![r].id = id]
                   /\ nextPostId' = IF obj.state = "transient"
                                    THEN nextPostId + 1 ELSE nextPostId
              ELSE UNCHANGED <<posts, postsDb, nextPostId>>
           /\ last' = Outcome("commit", r, "", None, res)
    /\ UNCHANGED <<authors, authorsDb, nextAuthorId, table, call>>

\* db.session.delete(post); db.session.commit(), or dropping an object that was
\* never committed
DeletePost(r) ==
    /\ table = "posts"
    /\ posts[r].state # "absent"
    /\ postsDb' = {old \in postsDb : old.id # posts[r].id}
    /\ posts' = [posts EXCEPT ![r] = NoPost]
    /\ last' = Outcome("delete", r, "", None, Return(None))
    /\ UNCHANGED <<authors, authorsDb, nextAuthorId, nextPostId, table, call>>

\* the keyword arguments Post() is called with
PostKwargs(supplied) ==
    [title : IF "title" \in supplied THEN TitleCands ELSE {None},
     content : IF "content" \in supplied THEN ContentCands ELSE {None},
     category : IF "category" \in supplied THEN CategoryCands ELSE {None},
     summary : IF "summary" \in supplied THEN SummaryCands ELSE {None}]

\* the keyword arguments Author() is called with
AuthorKwargs(supplied) ==
    [name : IF "name" \in supplied THEN NameCands ELSE {None},
     phone_number : IF "phone_number" \in supplied THEN PhoneCands ELSE {None}]

Next ==
    \/ \E r \in AuthorRecs, supplied \in SUBSET AuthorFields :
         \E kw \in AuthorKwargs(supplied) :
            ConstructAuthor(r, supplied, kw.name, kw.phone_number) /\ UNCHANGED rejected
    \/ \E r \in AuthorRecs, field \in AuthorFields :
         \E value \in AuthorCands(field) :
            AssignAuthor(r, field, value) /\ UNCHANGED rejected
    \/ \E r \in AuthorRecs : CommitAuthor(r) /\ UNCHANGED rejected
    \/ \E r \in AuthorRecs : DeleteAuthor(r) /\ UNCHANGED rejected
    \/ \E r \in PostRecs, supplied \in SUBSET PostFields :
         \E kw \in PostKwargs(supplied) :
            ConstructPost(r, supplied, kw) /\ UNCHANGED rejected
    \/ \E r \in PostRecs, field \in PostFields :
         \E value \in PostCands(field) : AssignPost(r, field, value) /\ UNCHANGED rejected
    \/ \E r \in PostRecs : CommitPost(r) /\ UNCHANGED rejected
    \/ \E r \in PostRecs : DeletePost(r) /\ UNCHANGED rejected

Spec == Init /\ [][Next]_vars

\* the same operations, with a rejected assignment remembered
RetryNext ==
    \/ \E r \in AuthorRecs, supplied \in SUBSET AuthorFields :
         \E kw \in AuthorKwargs(supplied) :
            ConstructAuthor(r, supplied, kw.name, kw.phone_number) /\ Track
    \/ \E r \in AuthorRecs, field \in AuthorFields :
         \E value \in AuthorCands(field) : AssignAuthor(r, field, value) /\ Track
    \/ \E r \in AuthorRecs : CommitAuthor(r) /\ Track
    \/ \E r \in AuthorRecs : DeleteAuthor(r) /\ Track
    \/ \E r \in PostRecs, supplied \in SUBSET PostFields :
         \E kw \in PostKwargs(supplied) : ConstructPost(r, supplied, kw) /\ Track
    \/ \E r \in PostRecs, field \in PostFields :
         \E value \in PostCands(field) : AssignPost(r, field, value) /\ Track
    \/ \E r \in PostRecs : CommitPost(r) /\ Track
    \/ \E r \in PostRecs : DeletePost(r) /\ Track

RetrySpec == Init /\ [][RetryNext]_vars


-----------------------------------------------------------------------------
(* Direct calls of the validators that read nothing but their argument     *)

DigitSeq == <<"0", "1", "2", "3", "4", "5", "6", "7", "8", "9">>
\* the first n characters of "12345678901234..."
Digits(n) == [i \in 1..n |-> DigitSeq[(i % 10) + 1]]
\* characters that are no decimal digit: formatting, a letter, SUPERSCRIPT TWO
OddChars == {"-", "(", ")", " ", "a", "U+00B2"}

PhoneInputs ==
    {None}
    \cup {Str(Digits(n)) : n \in 0..(PhoneLen + 1)}
    \cup UNION {{Str([Digits(n) EXCEPT ![i] = c]) : i \in 1..n, c \in OddChars} :
                  n \in 1..(PhoneLen + 1)}

Bodies ==
    LET P == {clickbait_phrases[k] : k \in 1..Len(clickbait_phrases)}
    IN  P \cup {lower(ph) : ph \in P}
          \cup {SubSeq(ph, 1, Len(ph) - 1) : ph \in P}
          \cup {SubSeq(ph, 1, 2) \o <<" ">> \o SubSeq(ph, 3, Len(ph)) : ph \in P}

TitleInputs ==
    {None, Str(<<>>), Str(<<" ">>), Str(<<" ", "\t", "\n">>),
     Str(Top10Secrets), Str(ANiceDay), Str(lower(Top10Secrets))}
    \cup {Str(pre \o body \o suf) :
            pre \in {<<>>, <<" ">>, <<"A", " ">>},
            body \in Bodies,
            suf \in {<<>>, <<"s">>, <<" ", "\n">>}}

ContentInputs ==
    {None}
    \cup {Str(Rep(c, n)) :
            c \in {"a", " "},
            n \in {0, 1, MinContentLen - 1, MinContentLen, MinContentLen + 1}}

SummaryInputs ==
    {None}
    \cup {Str(Rep(c, n)) :
            c \in {"s", " "},
            n \in {0, 1, MaxSummaryLen - 1, MaxSummaryLen, MaxSummaryLen + 1}}

CategoryInputs ==
    {None, Str(<<>>), Str(Fiction), Str(NonFiction), Str(lower(Fiction)),
     Str(lower(NonFiction)), Str(Fiction \o <<" ">>), Str(<<"N", "o", "n">> \o Fiction)}

Call(fn, arg, res) ==
    /\ call' = [fn |-> fn, arg |-> arg, res |-> res]
    /\ UNCHANGED <<authors, posts, authorsDb, postsDb, nextAuthorId, nextPostId,
                   table, last, rejected>>

ValidatorNext ==
    \/ \E v \in PhoneInputs :
         Call("validate_phone_number", v, validate_phone_number(NewAuthor, v))
    \/ \E v \in TitleInputs : Call("validate_title", v, validate_title(NewPost, v))
    \/ \E v \in ContentInputs : Call("validate_content", v, validate_content(NewPost, v))
    \/ \E v \in SummaryInputs : Call("validate_summary", v, validate_summary(NewPost, v))
    \/ \E v \in CategoryInputs :
         Call("validate_category", v, validate_category(NewPost, v))

ValidatorSpec == Init /\ [][ValidatorNext]_vars

-----------------------------------------------------------------------------
(* What the specification says of values, stated without the validators    *)

UniqueError == "Author name must be unique."

\* absent, empty or whitespace-only
Blank(v) == v.none \/ \A i \in 1..Len(v.chars) : v.chars[i] \in Whitespace

\* s holds p as a contiguous run of characters
Contains(s, p) ==
    \E i \in 1..(Len(s) + 1) : \E j \in (i - 1)..Len(s) : SubSeq(s, i, j) = p

Clickbait(v) ==
    \/ Contains(v.chars, <<"W", "o", "n", "'", "t", " ", "B", "e", "l", "i", "e", "v", "e">>)
    \/ Contains(v.chars, <<"S", "e", "c", "r", "e", "t">>)
    \/ Contains(v.chars, <<"T", "o", "p">>)
    \/ Contains(v.chars, <<"G", "u", "e", "s", "s">>)

TenDecimalDigits(v) ==
    /\ ~v.none
    /\ Len(v.chars) = 10
    /\ \A i \in 1..Len(v.chars) : v.chars[i] \in DecimalDigits

\* a committed row of "authors" other than the row of object `obj` holds `value`
HeldByAnother(obj, value) ==
    \E row \in authorsDb :
        /\ row.name = value
        /\ ~(obj.state = "persistent" /\ obj.id = row.id)

\* the object a slot stands for when validate_name runs: the object in it, or the
\* object under construction
Self(r) == IF authors[r].state = "absent" THEN NewAuthor ELSE authors[r]

NameInputs ==
    NameCands \cup {Str(<<>>), Str(<<" ">>), Str(<<" ">> \o Al), Str(lower(Al))}

-----------------------------------------------------------------------------
(* C1: every row of committed storage satisfies the field invariants of    *)
(* its type: an Author's name is non-blank and unique and its phone_number *)
(* is null or 10 decimal digits; a Post's title is non-blank and clickbait,*)
(* its content has at least 250 characters, its summary is null or has at  *)
(* most 250 characters, its category is "Fiction" or "Non-Fiction".        *)
C1_CommittedRowsValid ==
    /\ \A row \in authorsDb :
        /\ ~Blank(row.name)
        /\ \A other \in authorsDb : other.name = row.name => other = row
        /\ row.phone_number.none \/ TenDecimalDigits(row.phone_number)
    /\ \A row \in postsDb :
        /\ ~Blank(row.title) /\ Clickbait(row.title)
        /\ ~row.content.none /\ Len(row.content.chars) >= 250
        /\ row.summary.none \/ Len(row.summary.chars) <= 250
        /\ row.category \in {Str(Fiction), Str(NonFiction)}

(* C2: in every state of the committed Author rows, for every object and   *)
(* every candidate name t, validate_name(t) raises if and only if t is     *)
(* absent, empty or whitespace-only, or a committed Author other than the  *)
(* object holds the name t; otherwise it returns t unchanged.  The same    *)
(* holds of the assignment that ran last.                                  *)
C2_ValidateNameRejectsIff ==
    /\ \A r \in AuthorRecs, t \in NameInputs :
        \A existing \in First(authorsDb, t) :
            LET res == validate_name(Self(r), t, existing)
            IN  /\ ~res.ok <=> (Blank(t) \/ HeldByAnother(Self(r), t))
                /\ res.ok => res.value = t
    /\ (last.op = "assign" /\ last.field = "name") =>
        /\ ~last.ok <=> (Blank(last.value) \/ HeldByAnother(authors[last.rec], last.value))
        /\ last.ok => authors[last.rec].name = last.value

C2_Witness ==
    /\ last.op = "assign" /\ last.field = "name" /\ last.rec \in AuthorRecs
    /\ ~last.ok /\ last.error = UniqueError
    /\ \E r \in AuthorRecs : r # last.rec /\ authors[r].state = "persistent"
                              /\ authors[r].name = last.value
    /\ authors[last.rec].state = "persistent"

(* C3: creating two Authors with the same name one after the other: the     *)
(* first creation (construction, then commit, while no committed Author     *)
(* holds the name) succeeds, and the construction of the second, once the   *)
(* first is committed, raises the uniqueness error and leaves no object.    *)
C3_SecondCreationRejected ==
    [][\A r \in AuthorRecs :
        /\ (last'.op = "construct" /\ last'.rec = r) =>
             \A supplied \in {{"name"}, AuthorFields}, name \in NameCands,
                phone \in {p \in PhoneCands : validate_phone_number(NewAuthor, p).ok} :
                 /\ (ConstructAuthor(r, supplied, name, phone)
                       /\ \E row \in authorsDb : row.name = name)
                    => (authors'[r] = NoAuthor /\ ~last'.ok /\ last'.error = UniqueError)
                 /\ (ConstructAuthor(r, supplied, name, phone)
                       /\ ~Blank(name) /\ ~\E row \in authorsDb : row.name = name)
                    => (authors'[r].state = "transient" /\ authors'[r].name = name
                        /\ last'.ok)
        /\ (last'.op = "commit" /\ last'.rec = r /\ CommitAuthor(r)
              /\ authors[r].state = "transient" /\ ~authors[r].name.none
              /\ ~\E row \in authorsDb : row.name = authors[r].name)
           => (authors'[r].state = "persistent" /\ last'.ok
               /\ \E row \in authorsDb' :
                     row.name = authors[r].name /\ row.id = authors'[r].id)
      ]_vars

C3_Witness ==
    /\ last.op = "construct" /\ ~last.ok /\ last.error = UniqueError
    /\ last.rec \in AuthorRecs
    /\ \E r \in AuthorRecs :
        /\ r # last.rec
        /\ authors[r].state = "persistent"
        /\ \E row \in authorsDb : row.id = authors[r].id /\ row.name = authors[r].name
    /\ authors[last.rec] = NoAuthor

(* C4: the uniqueness check excludes the object being validated: for a      *)
(* persistent Author, assigning the name its committed row holds is         *)
(* accepted, a rejection of any name is never caused by its own row, and    *)
(* assigning phone_number never raises the uniqueness error; a new object,  *)
(* which has no id, is rejected for every name a committed Author holds.    *)
C4_SelfExcludedByIdentity ==
    /\ \A r \in AuthorRecs : authors[r].state = "persistent" =>
        /\ \A row \in authorsDb : row.id = authors[r].id =>
              \A existing \in First(authorsDb, row.name) :
                  validate_name(authors[r], row.name, existing) = Return(row.name)
        /\ \A t \in NameCands : \A existing \in First(authorsDb, t) :
              validate_name(authors[r], t, existing).error = UniqueError
                  => existing.id # authors[r].id
        /\ \A p \in PhoneCands :
              validate_phone_number(authors[r], p).error # UniqueError
    /\ \A row \in authorsDb : \A existing \in First(authorsDb, row.name) :
          validate_name(NewAuthor, row.name, existing) = Raise(UniqueError)
    /\ (last.op = "assign" /\ last.field = "phone_number") => last.error # UniqueError

C4_Witness ==
    /\ last.op = "assign" /\ last.field = "name" /\ last.ok
    /\ last.rec \in AuthorRecs
    /\ authors[last.rec].state = "persistent"
    /\ \E row \in authorsDb : row.id = authors[last.rec].id /\ row.name = last.value
    /\ \E r \in AuthorRecs : r # last.rec /\ authors[r].state = "persistent"

(* C5: two writers that each passed validate_name with the same name and    *)
(* then commit: at most one commit succeeds, and committed storage never    *)
(* holds two Author rows with the same name.                                *)
C5_NoTwoRowsWithOneName ==
    /\ \A row \in authorsDb, other \in authorsDb :
        row.name = other.name => row = other
    /\ \A r \in AuthorRecs, q \in AuthorRecs :
        (r # q /\ authors[r].state = "persistent" /\ authors[q].state = "persistent")
            => \A row \in authorsDb, other \in authorsDb :
                  (row.id = authors[r].id /\ other.id = authors[q].id)
                      => row.name # other.name

\* both writers hold the name, having passed validate_name; one committed it, the
\* commit of the other has just failed
C5_Witness ==
    /\ last.op = "commit" /\ ~last.ok
    /\ last.rec \in AuthorRecs
    /\ authors[last.rec].state = "transient"
    /\ \E r \in AuthorRecs :
        /\ r # last.rec
        /\ authors[r].state = "persistent"
        /\ authors[r].name = authors[last.rec].name
        /\ AuthorRow(authors[r], authors[r].id) \in authorsDb

(* C6: a rejected assignment changes nothing: when a validator raises, the  *)
(* field keeps its prior value, every other field of every object is        *)
(* unchanged and committed storage is unchanged; when it raises during      *)
(* construction no object is created.                                       *)
C6_RejectionChangesNothing ==
    [][(last'.op \in {"assign", "construct"} /\ ~last'.ok)
        => /\ UNCHANGED <<authors, posts, authorsDb, postsDb, nextAuthorId, nextPostId>>
           /\ last'.op = "construct" =>
                 (IF last'.rec \in AuthorRecs THEN authors'[last'.rec]
                  ELSE posts'[last'.rec]).state = "absent"
      ]_vars

C6_Witness ==
    /\ last.op = "assign" /\ ~last.ok
    /\ last.rec \in PostRecs
    /\ posts[last.rec].state = "persistent"
    /\ ~posts[last.rec][last.field].none
    /\ PostRow(posts[last.rec], posts[last.rec].id) \in postsDb

(* C7: validate_phone_number accepts if and only if the candidate is null   *)
(* or has exactly 10 characters, each a decimal digit.                     *)
C7_PhoneAcceptsIffTenDecimalDigits ==
    call.fn = "validate_phone_number" =>
        (call.res.ok <=> (call.arg.none \/ TenDecimalDigits(call.arg)))

(* C8: validate_title rejects an absent, empty or whitespace-only title and *)
(* otherwise accepts if and only if the title holds, case-sensitively and   *)
(* without normalization, one of "Won't Believe", "Secret", "Top", "Guess"; *)
(* an accepted title is returned unchanged.                                 *)
C8_TitleAcceptsIffClickbait ==
    /\ call.fn = "validate_title" =>
        /\ call.res.ok <=> (~Blank(call.arg) /\ Clickbait(call.arg))
        /\ call.res.ok => call.res.value = call.arg
    /\ validate_title(NewPost, Str(Top10Secrets)).ok
    /\ ~validate_title(NewPost, Str(ANiceDay)).ok

C8_Witness ==
    /\ call.fn = "validate_title"
    /\ call.arg = Str(lower(Top10Secrets))
    /\ ~call.res.ok

(* C9: validate_content accepts if and only if the candidate is non-null    *)
(* and its raw length is at least 250: 249 characters are rejected, 250     *)
(* accepted, whitespace counted.                                            *)
C9_ContentAcceptsIffLongEnough ==
    /\ call.fn = "validate_content" =>
        (call.res.ok <=> (~call.arg.none /\ Len(call.arg.chars) >= 250))
    /\ ~validate_content(NewPost, Str(Rep("a", 249))).ok
    /\ validate_content(NewPost, Str(Rep("a", 250))).ok

C9_Witness ==
    /\ call.fn = "validate_content"
    /\ call.arg = Str(Rep(" ", 250))
    /\ call.res.ok

\* the operation that ran last is a retry of the remembered rejected assignment
RetryRan ==
    /\ rejected # NoRejection
    /\ last.op = "assign"
    /\ IsRetry(last.rec, last.field, last.value)

(* C10 as claimed: once an assignment was rejected, every later retry of    *)
(* it on the same record is rejected, whatever happened in between.         *)
C10_RetryAlwaysRejected == RetryRan => ~last.ok

(* C10 as amended: a retry of a rejected assignment is rejected again,      *)
(* except after a uniqueness rejection by validate_name: that retry is      *)
(* rejected exactly while a committed Author other than the record holds    *)
(* the name.                                                                *)
C10_RetryRejectedUnlessNameFreed ==
    RetryRan =>
        (last.ok <=> /\ rejected.field = "name"
                     /\ rejected.error = UniqueError
                     /\ ~HeldByAnother(authors[last.rec], last.value))

C10_Witness ==
    /\ RetryRan /\ rejected.between /\ ~last.ok
    /\ rejected.error = UniqueError

====
